---- MODULE Spec2Model ----
\* The F1 25 telemetry coordinator (custom_components/f1_25_telemetry):
\* header check, size check, forwarding, dispatch to the per-packet decoders,
\* the snapshot they maintain, and the notification throttle.
EXTENDS Integers, Sequences, FiniteSets, TLC

VARIABLES
    entry,            \* the config entry the coordinator was built from
    data,             \* self.data: the snapshot
    _last_update,     \* self._last_update, in ms of monotonic time
    _forward_socket,  \* self._forward_socket: <<>> (None) or <<socket id>>
    _forward_dest,    \* self._forward_dest: <<>> (None) or <<ip, port>>
    clock,            \* time.monotonic(), in ms
    pkt,              \* the datagram of the latest process_packet call
    steps,            \* what that call did, in program order
    sent,             \* the sendto() calls of that call: <<[data, dest]>>
    raised,           \* whether an exception escaped that call
    outcome,          \* how that call ended: dropped (and why) or accepted
    lastNote,         \* time of the latest notification of any packet type
    lastHfNote,       \* the latest Telemetry/LapData notification: <<time, id>>
    prevHfNote,       \* the Telemetry/LapData notification before it
    transport,        \* self.transport: <<>> (None) or <<socket id>>
    sockets,          \* every socket created so far, by id: what it is for,
                      \* the destination set with it, and its close() calls
    setup             \* where async_setup_entry is: "constructed", "started"

vars == <<entry, data, _last_update, _forward_socket, _forward_dest, clock,
          pkt, steps, sent, raised, outcome, lastNote, lastHfNote,
          prevHfNote, transport, sockets, setup>>

-----------------------------------------------------------------------------
\* const.py

PACKET_ID_MOTION == 0
PACKET_ID_SESSION == 1
PACKET_ID_LAP_DATA == 2
PACKET_ID_EVENT == 3
PACKET_ID_PARTICIPANTS == 4
PACKET_ID_CAR_SETUPS == 5
PACKET_ID_CAR_TELEMETRY == 6
PACKET_ID_CAR_STATUS == 7
PACKET_ID_FINAL_CLASSIFICATION == 8
PACKET_ID_LOBBY_INFO == 9
PACKET_ID_CAR_DAMAGE == 10
PACKET_ID_SESSION_HISTORY == 11
PACKET_ID_TYRE_SETS == 12
PACKET_ID_MOTION_EX == 13
PACKET_ID_TIME_TRIAL == 14
PACKET_ID_LAP_POSITIONS == 15

DEFAULT_PORT == 20777
PACKET_HEADER_SIZE == 29

PACKET_SIZES ==
    (PACKET_ID_MOTION :> 1349) @@ (PACKET_ID_SESSION :> 753) @@
    (PACKET_ID_LAP_DATA :> 1285) @@ (PACKET_ID_EVENT :> 45) @@
    (PACKET_ID_PARTICIPANTS :> 1284) @@ (PACKET_ID_CAR_SETUPS :> 1133) @@
    (PACKET_ID_CAR_TELEMETRY :> 1352) @@ (PACKET_ID_CAR_STATUS :> 1239) @@
    (PACKET_ID_FINAL_CLASSIFICATION :> 1042) @@ (PACKET_ID_LOBBY_INFO :> 954) @@
    (PACKET_ID_CAR_DAMAGE :> 1041) @@ (PACKET_ID_SESSION_HISTORY :> 1460) @@
    (PACKET_ID_TYRE_SETS :> 231) @@ (PACKET_ID_MOTION_EX :> 273)

\* coordinator.py
RELEVANT_PACKETS ==
    {PACKET_ID_SESSION, PACKET_ID_LAP_DATA, PACKET_ID_CAR_TELEMETRY,
     PACKET_ID_CAR_STATUS, PACKET_ID_CAR_DAMAGE, PACKET_ID_EVENT,
     PACKET_ID_PARTICIPANTS}

\* the throttled types of process_packet, and its 0.1 s threshold in ms
HIGH_FREQUENCY == {PACKET_ID_CAR_TELEMETRY, PACKET_ID_LAP_DATA}
THROTTLE_MS == 100

-----------------------------------------------------------------------------
\* Python values

\* None, and an optional value x as <<x>>
None == <<>>
Some(x) == <<x>>
\* {} : a dict with no key
EmptyDict == [k \in {} |-> 0]
\* dict.get(key): None when the key is absent
DictGet(dict, key) == IF key \in DOMAIN dict THEN Some(dict[key]) ELSE None
\* dict.get(key, default)
DictGetDefault(dict, key, default) ==
    IF key \in DOMAIN dict THEN dict[key] ELSE default
\* dict[key] = value on an existing dict
DictSet(dict, key, value) ==
    [k \in DOMAIN dict \cup {key} |-> IF k = key THEN value ELSE dict[k]]

Max(a, b) == IF a >= b THEN a ELSE b
Min(a, b) == IF a <= b THEN a ELSE b

\* bytes: a length and the bytes that are not zero, by offset
Bytes(n, f) ==
    [len |-> n,
     bytes |-> [i \in {j \in DOMAIN f : j >= 0 /\ j < n /\ f[j] # 0} |-> f[i]]]
\* b[i] for an index inside the value (outside it Python raises IndexError)
ByteAt(b, i) == IF i \in DOMAIN b.bytes THEN b.bytes[i] ELSE 0
InRange(b, i) == i >= 0 /\ i < b.len
\* b[lo:hi]: the slice is cut to the value's length
Slice(b, lo, hi) ==
    LET start == Min(lo, b.len)
        stop  == Max(start, Min(hi, b.len))
    IN  [len |-> stop - start,
         bytes |-> [j \in {i - start : i \in {k \in DOMAIN b.bytes :
                                                k >= start /\ k < stop}}
                      |-> b.bytes[j + start]]]
\* b[lo:]
SliceFrom(b, lo) == Slice(b, lo, b.len)

\* struct: little-endian scalars at an offset (struct.error when they do not fit)
Fits(b, off, size) == off >= 0 /\ off + size <= b.len
U8(b, off) == ByteAt(b, off)
I8(b, off) == IF ByteAt(b, off) >= 128 THEN ByteAt(b, off) - 256 ELSE ByteAt(b, off)
U16(b, off) == ByteAt(b, off) + 256 * ByteAt(b, off + 1)
U32(b, off) == U16(b, off) + 65536 * U16(b, off + 2)
\* a float is kept as its 32 bits
F32(b, off) == U32(b, off)

-----------------------------------------------------------------------------
\* The decoders. Each gives the snapshot it leaves and whether it raised.

Result(D, r) == [data |-> D, raised |-> r]

\* _format_lap_time: "M:SS.mmm". The source divides in floating point; for a
\* uint32 the quotient is within 1e-9 of the exact one, and exact when the
\* remainder is 0, so "%06.3f" prints the exact thousandths and int() the exact
\* minutes: the integer arithmetic below is what it computes.
Digit(n) == <<"0", "1", "2", "3", "4", "5", "6", "7", "8", "9">>[n + 1]
\* a formatter whose minutes wrap at 100 instead of 60
_format_lap_time_WrapsAt100(lap_time_ms) ==
    IF lap_time_ms <= 0 THEN "0:00.000"
    ELSE LET millis  == lap_time_ms % 1000
             seconds == (lap_time_ms \div 1000) % 60
             minutes == (lap_time_ms \div 60000) % 100
         IN  (IF minutes >= 10 THEN Digit(minutes \div 10) ELSE "")
             \o Digit(minutes % 10) \o ":"
             \o Digit(seconds \div 10) \o Digit(seconds % 10) \o "."
             \o Digit(millis \div 100) \o Digit((millis \div 10) % 10)
             \o Digit(millis % 10)

_format_lap_time(lap_time_ms) ==
    IF lap_time_ms <= 0 THEN "0:00.000"
    ELSE LET millis  == lap_time_ms % 1000
             seconds == (lap_time_ms \div 1000) % 60
             minutes == (lap_time_ms \div 60000) % 60
         IN  (IF minutes >= 10 THEN Digit(minutes \div 10) ELSE "")
             \o Digit(minutes % 10) \o ":"
             \o Digit(seconds \div 10) \o Digit(seconds % 10) \o "."
             \o Digit(millis \div 100) \o Digit((millis \div 10) % 10)
             \o Digit(millis % 10)

\* a forecast loop that takes every announced sample, whether it fits or not
ForecastSamples_NoFitCheck(payload, num_samples, i) ==
    [k \in 1..(num_samples - i) |->
        LET s_offset == 127 + ((i + k - 1) * 8)
        IN  [time |-> ByteAt(payload, s_offset + 1),
             rain |-> ByteAt(payload, s_offset + 7)]]

\* the forecast loop of parse_session_packet, from sample i on: the samples
\* that fit the payload are the first ones, and each appends one element
ForecastSamples(payload, num_samples, i) ==
    LET fit == {j \in i..(num_samples - 1) : 127 + (j * 8) + 8 <= payload.len}
    IN  [k \in 1..Cardinality(fit) |->
            LET s_offset == 127 + ((i + k - 1) * 8)
            IN  [time |-> ByteAt(payload, s_offset + 1),
                 rain |-> ByteAt(payload, s_offset + 7)]]

\* a session-status rule that never ends an Active session
SessionStatusRule_NeverEnds(session_status, session_type_id, time_left) ==
    IF session_type_id # 0 /\ time_left > 0
    THEN IF session_status \in {"Unknown", "Inactive"} THEN "Active"
         ELSE session_status
    ELSE session_status

\* a session-status rule that sets Active whatever the status was
SessionStatusRule_OverEvents(session_status, session_type_id, time_left) ==
    IF session_type_id # 0 /\ time_left > 0
    THEN "Active"
    ELSE IF session_status = "Active" THEN "Ended" ELSE session_status

\* the session-status rule of parse_session_packet
SessionStatusRule(session_status, session_type_id, time_left) ==
    IF session_type_id # 0 /\ time_left > 0
    THEN IF session_status \in {"Unknown", "Inactive"} THEN "Active"
         ELSE session_status
    ELSE IF session_status = "Active" THEN "Ended" ELSE session_status

parse_session_packet(D, payload) ==
    IF Slice(payload, 0, 19).len # 19
    THEN Result(D, FALSE)                            \* struct.error, swallowed
    ELSE
      LET session_type_id == U8(payload, 6)
          session_status ==
              SessionStatusRule(
                  DictGetDefault(D.events, "session_status", "Inactive"),
                  session_type_id, U16(payload, 9))
          D1 == [D EXCEPT
                   !.session =
                      [weather |-> U8(payload, 0),
                       track_temperature |-> I8(payload, 1),
                       air_temperature |-> I8(payload, 2),
                       total_laps |-> U8(payload, 3),
                       track_length |-> U16(payload, 4),
                       session_type |-> session_type_id,
                       track_id |-> I8(payload, 7),
                       session_time_left |-> U16(payload, 9),
                       safety_car_status |-> 0],
                   !.events = DictSet(D.events, "session_status", session_status)]
          D2 == IF payload.len > 124
                THEN [D1 EXCEPT !.session.safety_car_status = ByteAt(payload, 124)]
                ELSE D1
          D3 == IF payload.len > 126
                THEN [D2 EXCEPT !.forecast =
                         ForecastSamples(payload, ByteAt(payload, 126), 0)]
                ELSE D2
      IN  IF ~InRange(payload, 124)
          THEN Result(D3, TRUE)                      \* IndexError at payload[124]
          ELSE Result([D3 EXCEPT !.session.safety_car_status =
                                     ByteAt(payload, 124)], FALSE)

\* the leader scan of parse_lap_data_packet, from car i on: the first car
\* whose byte 22 is 1, or None
RECURSIVE LeaderScan(_, _)
LeaderScan(payload, i) ==
    IF i >= 22 THEN None
    ELSE LET l_offset == i * 57
         IN  IF l_offset + 23 < payload.len /\ ByteAt(payload, l_offset + 22) = 1
             THEN Some(i)
             ELSE LeaderScan(payload, i + 1)

\* a lap decoder that adds the lap number to the one it stored before
parse_lap_data_packet_AddsLaps(D, payload, player_index) ==
    LET offset == player_index * 57 IN
    IF offset + 57 > payload.len
    THEN Result(D, FALSE)
    ELSE
      LET car_data == Slice(payload, offset, offset + 57)
          D1 == [D EXCEPT
                   !.lap_data =
                      [last_lap_time |-> U32(car_data, 0),
                       current_lap_time |-> U32(car_data, 4),
                       last_lap_str |-> _format_lap_time(U32(car_data, 0)),
                       car_position |-> U8(car_data, 41),
                       current_lap_num |->
                          DictGetDefault(D.lap_data, "current_lap_num", 0)
                          + U8(car_data, 42),
                       pit_status |-> U8(car_data, 43),
                       sector |-> U8(car_data, 45),
                       current_lap_invalid |-> U8(car_data, 46),
                       penalties |-> U16(car_data, 47)]]
          leader == LeaderScan(payload, 0)
      IN  IF leader = None
          THEN Result(D1, FALSE)
          ELSE Result([D1 EXCEPT !.session =
                          DictSet(D1.session, "leader_index", leader[1])], FALSE)

parse_lap_data_packet(D, payload, player_index) ==
    LET offset == player_index * 57 IN
    IF offset + 57 > payload.len
    THEN Result(D, FALSE)
    ELSE
      LET car_data == Slice(payload, offset, offset + 57)
          D1 == [D EXCEPT
                   !.lap_data =
                      [last_lap_time |-> U32(car_data, 0),
                       current_lap_time |-> U32(car_data, 4),
                       last_lap_str |-> _format_lap_time(U32(car_data, 0)),
                       car_position |-> U8(car_data, 41),
                       current_lap_num |-> U8(car_data, 42),
                       pit_status |-> U8(car_data, 43),
                       sector |-> U8(car_data, 45),
                       current_lap_invalid |-> U8(car_data, 46),
                       penalties |-> U16(car_data, 47)]]
          leader == LeaderScan(payload, 0)
      IN  IF leader = None
          THEN Result(D1, FALSE)
          ELSE Result([D1 EXCEPT !.session =
                          DictSet(D1.session, "leader_index", leader[1])], FALSE)

\* a telemetry decoder whose bounds check forgets the size of the record
parse_car_telemetry_packet_StartOnly(D, payload, player_index) ==
    LET offset == player_index * 60 IN
    IF offset > payload.len
    THEN Result(D, FALSE)
    ELSE
      LET car_data == Slice(payload, offset, offset + 60)
      IN  Result([D EXCEPT
                    !.car_telemetry =
                       [speed |-> U16(car_data, 0),
                        throttle |-> F32(car_data, 2),
                        brake |-> F32(car_data, 10),
                        gear |-> I8(car_data, 15),
                        engine_rpm |-> U16(car_data, 16),
                        drs |-> U8(car_data, 18),
                        tyre_surface_temp |->
                           <<U8(car_data, 30), U8(car_data, 31),
                             U8(car_data, 32), U8(car_data, 33)>>]], FALSE)

parse_car_telemetry_packet(D, payload, player_index) ==
    LET offset == player_index * 60 IN
    IF offset + 60 > payload.len
    THEN Result(D, FALSE)
    ELSE
      LET car_data == Slice(payload, offset, offset + 60)
      IN  Result([D EXCEPT
                    !.car_telemetry =
                       [speed |-> U16(car_data, 0),
                        throttle |-> F32(car_data, 2),
                        brake |-> F32(car_data, 10),
                        gear |-> I8(car_data, 15),
                        engine_rpm |-> U16(car_data, 16),
                        drs |-> U8(car_data, 18),
                        tyre_surface_temp |->
                           <<U8(car_data, 30), U8(car_data, 31),
                             U8(car_data, 32), U8(car_data, 33)>>]], FALSE)

parse_car_status_packet(D, payload, player_index) ==
    LET struct_size == 55
        offset == player_index * struct_size
    IN
    IF offset + struct_size > payload.len
    THEN Result(D, FALSE)
    ELSE
      LET car_data == Slice(payload, offset, offset + struct_size)
      IN  Result([D EXCEPT
                    !.car_status =
                       [pit_limiter_status |-> U8(car_data, 4),
                        fuel_remaining_laps |-> F32(car_data, 13),
                        fia_flags |-> I8(car_data, 28),
                        tyre_visual |-> U8(car_data, 26),
                        tyre_age |-> U8(car_data, 27),
                        ers_store |-> F32(car_data, 37),
                        ers_deploy_mode |-> U8(car_data, 41),
                        drs_allowed |-> U8(car_data, 22),
                        network_paused |->
                           IF car_data.len > 54 THEN ByteAt(car_data, 54) ELSE 0]],
                 FALSE)

\* a damage decoder that resets the terminal flag instead of keeping it
parse_car_damage_packet_ResetsTerminal(D, payload, player_index) ==
    LET struct_size == 46
        offset == player_index * struct_size
    IN
    IF offset + struct_size > payload.len
    THEN Result(D, FALSE)
    ELSE
      LET car_data == Slice(payload, offset, offset + struct_size)
          has_damage ==
              \/ \E i \in 16..19 : ByteAt(car_data, i) # 0
              \/ \E i \in 28..33 : ByteAt(car_data, i) # 0
      IN  Result([D EXCEPT
                    !.car_damage =
                       [tyres_wear |-> <<F32(car_data, 0), F32(car_data, 4),
                                         F32(car_data, 8), F32(car_data, 12)>>,
                        front_left_wing |-> ByteAt(car_data, 28),
                        front_right_wing |-> ByteAt(car_data, 29),
                        rear_wing |-> ByteAt(car_data, 30),
                        floor |-> ByteAt(car_data, 31),
                        diffuser |-> ByteAt(car_data, 32),
                        sidepod |-> ByteAt(car_data, 33),
                        terminal |-> 0,
                        has_damage |-> IF has_damage THEN 1 ELSE 0]], FALSE)

parse_car_damage_packet(D, payload, player_index) ==
    LET struct_size == 46
        offset == player_index * struct_size
    IN
    IF offset + struct_size > payload.len
    THEN Result(D, FALSE)
    ELSE
      LET car_data == Slice(payload, offset, offset + struct_size)
          terminal == DictGetDefault(D.car_damage, "terminal", 0)
          has_damage ==
              \/ \E i \in 16..19 : ByteAt(car_data, i) # 0
              \/ \E i \in 28..33 : ByteAt(car_data, i) # 0
      IN  Result([D EXCEPT
                    !.car_damage =
                       [tyres_wear |-> <<F32(car_data, 0), F32(car_data, 4),
                                         F32(car_data, 8), F32(car_data, 12)>>,
                        front_left_wing |-> ByteAt(car_data, 28),
                        front_right_wing |-> ByteAt(car_data, 29),
                        rear_wing |-> ByteAt(car_data, 30),
                        floor |-> ByteAt(car_data, 31),
                        diffuser |-> ByteAt(car_data, 32),
                        sidepod |-> ByteAt(car_data, 33),
                        terminal |-> terminal,
                        has_damage |-> IF has_damage THEN 1 ELSE 0]], FALSE)

\* the event codes, as their ASCII bytes
STLG == <<83, 84, 76, 71>>
LGOT == <<76, 71, 79, 84>>
SSTA == <<83, 83, 84, 65>>
SEND == <<83, 69, 78, 68>>
CHQF == <<67, 72, 81, 70>>
FTLP == <<70, 84, 76, 80>>
RTMT == <<82, 84, 77, 84>>

\* the bytes of a value, in order
AsSeq(b) == [i \in 1..b.len |-> ByteAt(b, i - 1)]

parse_event_packet(D, payload) ==
    LET event_code == AsSeq(Slice(payload, 0, 4)) IN
    IF \E i \in 1..Len(event_code) : event_code[i] >= 128
    THEN Result(D, FALSE)                        \* UnicodeDecodeError, swallowed
    ELSE IF event_code = STLG
    THEN IF ~InRange(payload, 4) THEN Result(D, TRUE)
         ELSE Result([D EXCEPT !.events =
                         DictSet(D.events, "start_lights", ByteAt(payload, 4))],
                     FALSE)
    ELSE IF event_code = LGOT
    THEN Result([D EXCEPT !.events = DictSet(D.events, "start_lights", 0)], FALSE)
    ELSE IF event_code = SSTA
    THEN Result([D EXCEPT !.events =
                    DictSet(D.events, "session_status", "Started")], FALSE)
    ELSE IF event_code = SEND
    THEN Result([D EXCEPT !.events =
                    DictSet(D.events, "session_status", "Ended")], FALSE)
    ELSE IF event_code = CHQF
    THEN Result([D EXCEPT !.events =
                    DictSet(D.events, "session_status", "Chequered Flag")], FALSE)
    ELSE IF event_code = FTLP
    THEN IF ~InRange(payload, 4) THEN Result(D, TRUE)
         ELSE IF ~Fits(payload, 5, 4) THEN Result(D, FALSE)  \* struct.error
         ELSE Result([D EXCEPT !.fastest_lap =
                         [car_index |-> ByteAt(payload, 4),
                          lap_time |-> F32(payload, 5)]], FALSE)
    ELSE IF event_code = RTMT
    THEN IF ~InRange(payload, 4) \/ ~InRange(payload, 5) THEN Result(D, TRUE)
         ELSE LET veh_idx == ByteAt(payload, 4)
                  reason  == ByteAt(payload, 5)
              IN  IF Some(veh_idx) = DictGet(D, "player_car_index") /\ reason = 3
                  THEN Result([D EXCEPT !.car_damage =
                                  DictSet(D.car_damage, "terminal", 1)], FALSE)
                  ELSE Result(D, FALSE)
    ELSE Result(D, FALSE)

\* name_bytes.split(b'\x00')[0]: the bytes before the first NUL, from byte i on
RECURSIVE UpToNul(_, _)
UpToNul(b, i) ==
    IF i >= b.len \/ ByteAt(b, i) = 0 THEN <<>>
    ELSE <<ByteAt(b, i)>> \o UpToNul(b, i + 1)

\* whether bytes.decode("utf-8") accepts the sequence
Cont(s, i, lo, hi) == i <= Len(s) /\ s[i] >= lo /\ s[i] <= hi
RECURSIVE Utf8Valid(_, _)
Utf8Valid(s, i) ==
    IF i > Len(s) THEN TRUE
    ELSE LET c == s[i] IN
         IF c < 128 THEN Utf8Valid(s, i + 1)
         ELSE IF c >= 194 /\ c <= 223
         THEN Cont(s, i + 1, 128, 191) /\ Utf8Valid(s, i + 2)
         ELSE IF c >= 224 /\ c <= 239
         THEN /\ Cont(s, i + 1, IF c = 224 THEN 160 ELSE 128,
                                IF c = 237 THEN 159 ELSE 191)
              /\ Cont(s, i + 2, 128, 191)
              /\ Utf8Valid(s, i + 3)
         ELSE IF c >= 240 /\ c <= 244
         THEN /\ Cont(s, i + 1, IF c = 240 THEN 144 ELSE 128,
                                IF c = 244 THEN 143 ELSE 191)
              /\ Cont(s, i + 2, 128, 191)
              /\ Cont(s, i + 3, 128, 191)
              /\ Utf8Valid(s, i + 4)
         ELSE FALSE

\* a participants loop that a name that does not decode ends
ParticipantsLoop_StopsAtBadName(participants, payload, num_cars, i) ==
    LET name(k) == UpToNul(Slice(payload, 1 + (k * 57) + 7,
                                 1 + (k * 57) + 7 + 32), 0)
        fits(k) == 1 + (k * 57) + 57 <= payload.len
        stored == {k \in i..(num_cars - 1) :
                      /\ fits(k)
                      /\ \A m \in i..k : fits(m) => Utf8Valid(name(m), 1)}
    IN  [k \in DOMAIN participants \cup stored |->
            IF k \in stored THEN name(k) ELSE participants[k]]

\* a participants loop that stores every announced entry, whether it fits
\* the payload or not
ParticipantsLoop_NoFitCheck(participants, payload, num_cars, i) ==
    LET name(k) == UpToNul(Slice(payload, 1 + (k * 57) + 7,
                                 1 + (k * 57) + 7 + 32), 0)
        stored == {k \in i..(num_cars - 1) : Utf8Valid(name(k), 1)}
    IN  [k \in DOMAIN participants \cup stored |->
            IF k \in stored THEN name(k) ELSE participants[k]]

\* the loop of parse_participants_packet, from entry i on: every entry that
\* fits the payload and whose name decodes is stored under its index
ParticipantsLoop(participants, payload, num_cars, i) ==
    LET name(k) == UpToNul(Slice(payload, 1 + (k * 57) + 7,
                                 1 + (k * 57) + 7 + 32), 0)
        stored == {k \in i..(num_cars - 1) :
                      /\ 1 + (k * 57) + 57 <= payload.len
                      /\ Utf8Valid(name(k), 1)}
    IN  [k \in DOMAIN participants \cup stored |->
            IF k \in stored THEN name(k) ELSE participants[k]]

parse_participants_packet(D, payload) ==
    IF ~InRange(payload, 0) THEN Result(D, TRUE)     \* IndexError at payload[0]
    ELSE Result([D EXCEPT !.participants =
                    ParticipantsLoop(D.participants, payload,
                                     ByteAt(payload, 0), 0)], FALSE)

-----------------------------------------------------------------------------
\* process_packet

\* a length check that is off by one
HeaderTooShort_OffByOne(d) == d.len < PACKET_HEADER_SIZE - 1

\* len(data) < PACKET_HEADER_SIZE
HeaderTooShort(d) == d.len < PACKET_HEADER_SIZE

\* the two header fields process_packet uses
HeaderPacketId(d) == U8(d, 6)
HeaderPlayerCarIndex(d) == U8(d, 27)

\* a size check that rejects only the datagrams that are too short
SizeMismatch_OnlyShorter(d) ==
    LET packet_id == HeaderPacketId(d) IN
    /\ packet_id \in DOMAIN PACKET_SIZES
    /\ PACKET_SIZES[packet_id] # 0
    /\ d.len < PACKET_SIZES[packet_id]

\* a size check that lets every datagram through
SizeMismatch_Never(d) == FALSE

\* expected_size and len(data) != expected_size
SizeMismatch(d) ==
    LET packet_id == HeaderPacketId(d) IN
    /\ packet_id \in DOMAIN PACKET_SIZES
    /\ PACKET_SIZES[packet_id] # 0
    /\ d.len # PACKET_SIZES[packet_id]

\* data[PACKET_HEADER_SIZE:]
Payload(d) == SliceFrom(d, PACKET_HEADER_SIZE)

\* a forwarder that relays the payload, without the header
Forward_PayloadOnly(forward_socket, forward_dest, d, sendOk) ==
    IF forward_socket # None /\ forward_dest # None
    THEN [sent |-> <<[data |-> Payload(d), dest |-> forward_dest, ok |-> sendOk]>>,
          raised |-> FALSE]
    ELSE [sent |-> <<>>, raised |-> FALSE]

\* a forwarder that lets the exception of a failed sendto() escape
Forward_Propagates(forward_socket, forward_dest, d, sendOk) ==
    IF forward_socket # None /\ forward_dest # None
    THEN [sent |-> <<[data |-> d, dest |-> forward_dest, ok |-> sendOk]>>,
          raised |-> ~sendOk]
    ELSE [sent |-> <<>>, raised |-> FALSE]

\* the forwarding block: the sendto() calls made, and whether it raised
Forward(forward_socket, forward_dest, d, sendOk) ==
    IF forward_socket # None /\ forward_dest # None
    THEN [sent |-> <<[data |-> d, dest |-> forward_dest, ok |-> sendOk]>>,
          raised |-> FALSE]                      \* except Exception: logged
    ELSE [sent |-> <<>>, raised |-> FALSE]

\* a dispatch that also hands Motion packets to the session decoder
Dispatch_DecodesMotion(D, packet_id, payload, player_car_index) ==
    IF packet_id \in {PACKET_ID_SESSION, PACKET_ID_MOTION}
    THEN [calls |-> <<"parse_session_packet">>,
          res |-> parse_session_packet(D, payload)]
    ELSE IF packet_id = PACKET_ID_LAP_DATA
    THEN [calls |-> <<"parse_lap_data_packet">>,
          res |-> parse_lap_data_packet(D, payload, player_car_index)]
    ELSE IF packet_id = PACKET_ID_CAR_TELEMETRY
    THEN [calls |-> <<"parse_car_telemetry_packet">>,
          res |-> parse_car_telemetry_packet(D, payload, player_car_index)]
    ELSE IF packet_id = PACKET_ID_CAR_STATUS
    THEN [calls |-> <<"parse_car_status_packet">>,
          res |-> parse_car_status_packet(D, payload, player_car_index)]
    ELSE IF packet_id = PACKET_ID_CAR_DAMAGE
    THEN [calls |-> <<"parse_car_damage_packet">>,
          res |-> parse_car_damage_packet(D, payload, player_car_index)]
    ELSE IF packet_id = PACKET_ID_PARTICIPANTS
    THEN [calls |-> <<"parse_participants_packet">>,
          res |-> parse_participants_packet(D, payload)]
    ELSE IF packet_id = PACKET_ID_EVENT
    THEN [calls |-> <<"parse_event_packet">>,
          res |-> parse_event_packet(D, payload)]
    ELSE [calls |-> <<>>, res |-> Result(D, FALSE)]

\* the if/elif chain over packet_id: the decoder called, and its result
Dispatch(D, packet_id, payload, player_car_index) ==
    IF packet_id = PACKET_ID_SESSION
    THEN [calls |-> <<"parse_session_packet">>,
          res |-> parse_session_packet(D, payload)]
    ELSE IF packet_id = PACKET_ID_LAP_DATA
    THEN [calls |-> <<"parse_lap_data_packet">>,
          res |-> parse_lap_data_packet(D, payload, player_car_index)]
    ELSE IF packet_id = PACKET_ID_CAR_TELEMETRY
    THEN [calls |-> <<"parse_car_telemetry_packet">>,
          res |-> parse_car_telemetry_packet(D, payload, player_car_index)]
    ELSE IF packet_id = PACKET_ID_CAR_STATUS
    THEN [calls |-> <<"parse_car_status_packet">>,
          res |-> parse_car_status_packet(D, payload, player_car_index)]
    ELSE IF packet_id = PACKET_ID_CAR_DAMAGE
    THEN [calls |-> <<"parse_car_damage_packet">>,
          res |-> parse_car_damage_packet(D, payload, player_car_index)]
    ELSE IF packet_id = PACKET_ID_PARTICIPANTS
    THEN [calls |-> <<"parse_participants_packet">>,
          res |-> parse_participants_packet(D, payload)]
    ELSE IF packet_id = PACKET_ID_EVENT
    THEN [calls |-> <<"parse_event_packet">>,
          res |-> parse_event_packet(D, payload)]
    ELSE [calls |-> <<>>, res |-> Result(D, FALSE)]

\* a throttle with half the interval
Throttle_HalfInterval(packet_id, now, last_update) ==
    IF packet_id \notin RELEVANT_PACKETS
    THEN [notify |-> FALSE, last_update |-> last_update]
    ELSE IF packet_id \in HIGH_FREQUENCY
    THEN IF now - last_update < THROTTLE_MS \div 2
         THEN [notify |-> FALSE, last_update |-> last_update]
         ELSE [notify |-> TRUE, last_update |-> now]
    ELSE [notify |-> TRUE, last_update |-> last_update]

\* a throttle that never stores the time of the notification
Throttle_NoStamp(packet_id, now, last_update) ==
    IF packet_id \notin RELEVANT_PACKETS
    THEN [notify |-> FALSE, last_update |-> last_update]
    ELSE IF packet_id \in HIGH_FREQUENCY
    THEN IF now - last_update < THROTTLE_MS
         THEN [notify |-> FALSE, last_update |-> last_update]
         ELSE [notify |-> TRUE, last_update |-> last_update]
    ELSE [notify |-> TRUE, last_update |-> last_update]

\* a throttle applied to every relevant type
Throttle_EveryType(packet_id, now, last_update) ==
    IF packet_id \notin RELEVANT_PACKETS
    THEN [notify |-> FALSE, last_update |-> last_update]
    ELSE IF now - last_update < THROTTLE_MS
         THEN [notify |-> FALSE, last_update |-> last_update]
         ELSE [notify |-> TRUE, last_update |-> now]

\* the throttle: whether async_set_updated_data is called, and _last_update
Throttle(packet_id, now, last_update) ==
    IF packet_id \notin RELEVANT_PACKETS
    THEN [notify |-> FALSE, last_update |-> last_update]
    ELSE IF packet_id \in HIGH_FREQUENCY
    THEN IF now - last_update < THROTTLE_MS
         THEN [notify |-> FALSE, last_update |-> last_update]
         ELSE [notify |-> TRUE, last_update |-> now]
    ELSE [notify |-> TRUE, last_update |-> last_update]

\* a process_packet that returns on a throttled packet before decoding it
ProcessPacket_ThrottlesDecoding(D, last_update, forward_socket, forward_dest, d, now, sendOk) ==
    LET dropped(why) ==
            [data |-> D, last_update |-> last_update, steps |-> <<>>,
             sent |-> <<>>, raised |-> FALSE, outcome |-> why]
    IN
    IF HeaderTooShort(d) THEN dropped("TruncatedHeader")
    ELSE IF SizeMismatch(d) THEN dropped("SizeMismatch")
    ELSE
      LET packet_id == HeaderPacketId(d)
          fwd == Forward(forward_socket, forward_dest, d, sendOk)
          fwdSteps == IF fwd.sent # <<>> THEN <<"sendto">> ELSE <<>>
      IN
      IF fwd.raised
      THEN [dropped("Accepted") EXCEPT !.steps = fwdSteps, !.sent = fwd.sent,
                                       !.raised = TRUE]
      ELSE
        IF packet_id \in HIGH_FREQUENCY /\ now - last_update < THROTTLE_MS
        THEN [dropped("Accepted") EXCEPT !.steps = fwdSteps, !.sent = fwd.sent]
        ELSE
        LET dec == Dispatch(D, packet_id, Payload(d), HeaderPlayerCarIndex(d)) IN
        IF dec.res.raised
        THEN [data |-> dec.res.data, last_update |-> last_update,
              steps |-> fwdSteps \o dec.calls, sent |-> fwd.sent, raised |-> TRUE,
              outcome |-> "Accepted"]
        ELSE
          LET thr == Throttle(packet_id, now, last_update) IN
          [data |-> dec.res.data, last_update |-> thr.last_update,
           steps |-> fwdSteps \o dec.calls \o
                     (IF thr.notify THEN <<"async_set_updated_data">> ELSE <<>>),
           sent |-> fwd.sent, raised |-> FALSE, outcome |-> "Accepted"]

\* one call of process_packet on datagram d at monotonic time now
ProcessPacket(D, last_update, forward_socket, forward_dest, d, now, sendOk) ==
    LET dropped(why) ==
            [data |-> D, last_update |-> last_update, steps |-> <<>>,
             sent |-> <<>>, raised |-> FALSE, outcome |-> why]
    IN
    IF HeaderTooShort(d) THEN dropped("TruncatedHeader")
    ELSE IF SizeMismatch(d) THEN dropped("SizeMismatch")
    ELSE
      LET packet_id == HeaderPacketId(d)
          fwd == Forward(forward_socket, forward_dest, d, sendOk)
          fwdSteps == IF fwd.sent # <<>> THEN <<"sendto">> ELSE <<>>
      IN
      IF fwd.raised
      THEN [dropped("Accepted") EXCEPT !.steps = fwdSteps, !.sent = fwd.sent,
                                       !.raised = TRUE]
      ELSE
        LET dec == Dispatch(D, packet_id, Payload(d), HeaderPlayerCarIndex(d)) IN
        IF dec.res.raised
        THEN [data |-> dec.res.data, last_update |-> last_update,
              steps |-> fwdSteps \o dec.calls, sent |-> fwd.sent, raised |-> TRUE,
              outcome |-> "Accepted"]
        ELSE
          LET thr == Throttle(packet_id, now, last_update) IN
          [data |-> dec.res.data, last_update |-> thr.last_update,
           steps |-> fwdSteps \o dec.calls \o
                     (IF thr.notify THEN <<"async_set_updated_data">> ELSE <<>>),
           sent |-> fwd.sent, raised |-> FALSE, outcome |-> "Accepted"]

-----------------------------------------------------------------------------
\* async_stop and async_update_options

\* an async_stop that closes the transport only
AsyncStop_TransportOnly(transport_, forward_socket) ==
    [transport |-> None,
     forward_socket |-> forward_socket,
     closed |-> IF transport_ # None THEN <<transport_[1]>> ELSE <<>>]

\* an async_stop that closes the forwarding socket and keeps the reference
AsyncStop_KeepsReference(transport_, forward_socket) ==
    [transport |-> None,
     forward_socket |-> forward_socket,
     closed |-> (IF transport_ # None THEN <<transport_[1]>> ELSE <<>>)
                \o (IF forward_socket # None THEN <<forward_socket[1]>> ELSE <<>>)]

\* async_stop: the two references it leaves, and the sockets it closes, in order
AsyncStop(transport_, forward_socket) ==
    [transport |-> None,
     forward_socket |-> None,
     closed |-> (IF transport_ # None THEN <<transport_[1]>> ELSE <<>>)
                \o (IF forward_socket # None THEN <<forward_socket[1]>> ELSE <<>>)]

\* an async_update_options that opens the new socket without closing the old
AsyncUpdateOptions_LeaksSocket(e, forward_socket, new_id) ==
    IF e.forward_enabled /\ e.forward_ip # "" /\ e.forward_port # 0
    THEN [forward_socket |-> Some(new_id),
          forward_dest |-> <<e.forward_ip, e.forward_port>>,
          closed |-> <<>>, opened |-> TRUE]
    ELSE [forward_socket |-> None, forward_dest |-> None,
          closed |-> IF forward_socket # None THEN <<forward_socket[1]>> ELSE <<>>,
          opened |-> FALSE]

\* async_update_options with the options of entry e: the socket and the
\* destination it leaves, the socket it closes, and whether it opens one (which
\* gets new_id)
AsyncUpdateOptions(e, forward_socket, new_id) ==
    LET closed == IF forward_socket # None THEN <<forward_socket[1]>> ELSE <<>>
    IN  IF e.forward_enabled /\ e.forward_ip # "" /\ e.forward_port # 0
        THEN [forward_socket |-> Some(new_id),
              forward_dest |-> <<e.forward_ip, e.forward_port>>,
              closed |-> closed, opened |-> TRUE]
        ELSE [forward_socket |-> None, forward_dest |-> None,
              closed |-> closed, opened |-> FALSE]

-----------------------------------------------------------------------------
\* Bounds of the model

\* time.monotonic() at the first datagram, and the latest time modelled (ms)
StartTime == 1000
MaxTime == 1300

\* the most sockets one run creates (transport and forwarding sockets)
MaxSockets == 4

-----------------------------------------------------------------------------
\* The state after F125Coordinator.__init__

\* the forwarding block of __init__: <<_forward_socket, _forward_dest>>
InitForwarding(e) ==
    IF e.forward_enabled /\ e.forward_ip # "" /\ e.forward_port # 0
    THEN <<Some(1), <<e.forward_ip, e.forward_port>> >>
    ELSE <<None, None>>

\* self.data as __init__ leaves it
InitData ==
    [session |-> EmptyDict,
     lap_data |-> EmptyDict,
     car_telemetry |-> EmptyDict,
     car_status |-> EmptyDict,
     car_damage |-> EmptyDict,
     participants |-> EmptyDict,
     fastest_lap |-> [car_index |-> 255, lap_time |-> 0],
     events |-> [start_lights |-> 0, session_status |-> "Unknown"],
     forecast |-> <<>>]

\* entry.options / entry.data: forwarding off (the default), on, on without a host
EntryDefault ==
    [forward_enabled |-> FALSE, forward_ip |-> "", forward_port |-> DEFAULT_PORT]
Entries ==
    {EntryDefault,
     [forward_enabled |-> TRUE, forward_ip |-> "10.0.0.2", forward_port |-> DEFAULT_PORT],
     [forward_enabled |-> TRUE, forward_ip |-> "", forward_port |-> DEFAULT_PORT]}

\* the sockets __init__ has created: the forwarding socket, if any
InitSockets(e) ==
    IF InitForwarding(e)[1] # None
    THEN (InitForwarding(e)[1][1] :>
             [kind |-> "forward", dest |-> InitForwarding(e)[2], closes |-> 0])
    ELSE EmptyDict

InitWith(e, D) ==
    /\ entry = e
    /\ data = D
    /\ _last_update = 0
    /\ _forward_socket = InitForwarding(e)[1]
    /\ _forward_dest = InitForwarding(e)[2]
    /\ clock = StartTime
    /\ pkt = None
    /\ steps = <<>>
    /\ sent = <<>>
    /\ raised = FALSE
    /\ outcome = "None"
    /\ lastNote = None
    /\ lastHfNote = None
    /\ prevHfNote = None
    /\ transport = None
    /\ sockets = InitSockets(e)
    /\ setup = "constructed"

Init == \E e \in Entries : InitWith(e, InitData)
InitDefault == InitWith(EntryDefault, InitData)

-----------------------------------------------------------------------------
\* Datagrams

\* a datagram of n bytes with the header's packet id and player car index,
\* and the payload bytes of body (by payload offset); every other byte is 0
Datagram(n, packet_id, car, body) ==
    Bytes(n, (6 :> packet_id) @@ (27 :> car) @@
             [i \in {j + PACKET_HEADER_SIZE : j \in DOMAIN body}
                |-> body[i - PACKET_HEADER_SIZE]])

\* a datagram of the size PACKET_SIZES gives its type
Sized(packet_id, car, body) ==
    Datagram(PACKET_SIZES[packet_id], packet_id, car, body)

NoBody == [j \in {} |-> 0]

\* one well-sized datagram of each decoded type, player car 0
Accepted ==
    {Sized(id, 0, NoBody) : id \in RELEVANT_PACKETS}

\* shorter than the header
Short ==
    {Datagram(0, 0, 0, NoBody),
     Datagram(28, PACKET_ID_LAP_DATA, 0, NoBody),
     Datagram(28, PACKET_ID_TIME_TRIAL, 0, NoBody)}

\* a type with a known size, at another length
WrongSize ==
    {Datagram(PACKET_SIZES[id] + 1, id, 0, NoBody) :
        id \in {PACKET_ID_SESSION, PACKET_ID_CAR_TELEMETRY, PACKET_ID_MOTION}}
    \cup {Datagram(PACKET_SIZES[id] - 1, id, 0, NoBody) :
        id \in {PACKET_ID_LAP_DATA, PACKET_ID_EVENT}}
    \cup {Datagram(PACKET_HEADER_SIZE, id, 0, NoBody) :
        id \in {PACKET_ID_CAR_DAMAGE, PACKET_ID_TYRE_SETS}}

\* types without a decoder: with a known size (Motion), and without one
Undecoded ==
    {Sized(PACKET_ID_MOTION, 0, NoBody),
     Datagram(PACKET_HEADER_SIZE, PACKET_ID_TIME_TRIAL, 0, NoBody),
     Datagram(60, 200, 0, (3 :> 7))}

MainInputs == Accepted \cup Short \cup WrongSize \cup Undecoded

-----------------------------------------------------------------------------
\* Actions

\* whether a call with these steps notified the listeners
Notified(st) == \E i \in 1..Len(st) : st[i] = "async_set_updated_data"

\* F125Protocol.datagram_received -> process_packet(d), dt ms after the
\* previous datagram; sendOk: whether a sendto() of this call succeeds
process_packet(d, dt, sendOk) ==
    /\ clock + dt <= MaxTime
    /\ \E r \in {ProcessPacket(data, _last_update, _forward_socket,
                              _forward_dest, d, clock + dt, sendOk)} :
       LET now == clock + dt
           notified == Notified(r.steps)
           hf == notified /\ HeaderPacketId(d) \in HIGH_FREQUENCY
       IN  /\ clock' = now
           /\ pkt' = Some(d)
           /\ data' = r.data
           /\ _last_update' = r.last_update
           /\ steps' = r.steps
           /\ sent' = r.sent
           /\ raised' = r.raised
           /\ outcome' = r.outcome
           /\ lastNote' = IF notified THEN Some(now) ELSE lastNote
           /\ lastHfNote' = IF hf THEN <<now, HeaderPacketId(d)>> ELSE lastHfNote
           /\ prevHfNote' = IF hf THEN lastHfNote ELSE prevHfNote
    /\ UNCHANGED <<entry, _forward_socket, _forward_dest, transport, sockets,
                   setup>>

Next == \E d \in MainInputs, dt \in {0, 150}, sendOk \in BOOLEAN :
            process_packet(d, dt, sendOk)

Spec == Init /\ [][Next]_vars

\* the relevant types only, at the intervals around the throttle's 100 ms
NextThrottle == \E d \in Accepted, dt \in {0, 50, 100} :
                    process_packet(d, dt, TRUE)

SpecThrottle == InitDefault /\ [][NextThrottle]_vars

-----------------------------------------------------------------------------
\* Lap data: where the leader is, and which car the header names

\* payload bytes giving car k the byte pos[k] at offset 22 of its 57-byte record
PositionBytes(pos) ==
    [j \in {k * 57 + 22 : k \in DOMAIN pos} |-> pos[(j - 22) \div 57]]

LapBodies ==
    {NoBody,
     PositionBytes(3 :> 1),
     PositionBytes(0 :> 1),
     PositionBytes(21 :> 1),
     PositionBytes((3 :> 1) @@ (7 :> 1)),
     \* car 0: last lap 61234 ms, and a byte-22 value that is not 1
     (0 :> 50) @@ (1 :> 239) @@ PositionBytes((0 :> 2) @@ (3 :> 1) @@ (21 :> 5))}

LapInputs ==
    {Sized(PACKET_ID_LAP_DATA, car, body) :
        car \in {0, 3, 21, 22, 255}, body \in LapBodies}
    \cup {Sized(PACKET_ID_SESSION, 0, NoBody)}

NextLap == \E d \in LapInputs, dt \in {0, 100} : process_packet(d, dt, TRUE)

SpecLap == InitDefault /\ [][NextLap]_vars

-----------------------------------------------------------------------------
\* Events and car damage

\* an Event payload: the 4-byte code, then two bytes
EventBody(code, b4, b5) ==
    [j \in 0..5 |-> IF j < 4 THEN code[j + 1] ELSE IF j = 4 THEN b4 ELSE b5]

EventInputs ==
    {Sized(PACKET_ID_EVENT, car, EventBody(RTMT, veh, reason)) :
        car \in {0, 5, 255}, veh \in {0, 5}, reason \in {3, 4}}
    \cup {Sized(PACKET_ID_EVENT, 0, EventBody(code, 3, 0)) :
            code \in {STLG, LGOT, SSTA, SEND, CHQF, FTLP, <<200, 84, 77, 84>>}}

\* damage payloads: none, a front wing of car 0, a tyre of car 5
DamageInputs ==
    {Sized(PACKET_ID_CAR_DAMAGE, car, body) :
        car \in {0, 5, 255},
        body \in {NoBody, (28 :> 10), (5 * 46 + 16 :> 30)}}

NextEvent == \E d \in EventInputs \cup DamageInputs, dt \in {0, 100} :
                 process_packet(d, dt, TRUE)

SpecEvent == InitDefault /\ [][NextEvent]_vars

\* parse_car_damage_packet over the car_damage groups it can be handed: the one
\* __init__ leaves, and the one line 599 of parse_event_packet writes
InitDamage ==
    \E D \in {InitData, [InitData EXCEPT !.car_damage = [terminal |-> 1]]} :
        InitWith(EntryDefault, D)

SpecDamage == InitDamage /\ [][NextEvent]_vars

-----------------------------------------------------------------------------
\* Properties

\* a datagram as long as the header whose length is the one PACKET_SIZES gives
\* its type, when it gives one
WellSized(d) ==
    /\ d.len >= 29
    /\ HeaderPacketId(d) \in DOMAIN PACKET_SIZES
          => d.len = PACKET_SIZES[HeaderPacketId(d)]

\* how often a call with these steps notified the listeners
NotifyCount(st) == Cardinality({i \in 1..Len(st) : st[i] = "async_set_updated_data"})

\* the coordinator holds a forwarding socket and a destination
ForwardingOn == _forward_socket # None /\ _forward_dest # None

\* this call left the snapshot and the throttle as they were, called no
\* decoder, notified nobody and sent nothing
NothingDone ==
    /\ data' = data
    /\ _last_update' = _last_update
    /\ steps' = <<>>
    /\ sent' = <<>>
    /\ ~raised'

\* C1: a datagram shorter than the 29-byte header leaves every field-group of
\* the snapshot unchanged, notifies nobody and is not forwarded, whatever the
\* state and the forwarding configuration before it.
C1_ShortDatagramDropped ==
    [][pkt'[1].len < 29 => NothingDone]_vars

\* C1 happens: a short datagram arrived at a coordinator that forwards and
\* whose snapshot and throttle earlier packets have changed
C1_Witness ==
    /\ pkt # None
    /\ pkt[1].len < 29
    /\ pkt[1].len > 0
    /\ ForwardingOn
    /\ data # InitData
    /\ _last_update > 0

\* C2: a datagram whose packet id has a size in PACKET_SIZES and whose length
\* is another one runs no decoder, leaves the snapshot unchanged, notifies
\* nobody and is not forwarded; a datagram whose packet id has no size there
\* passes this check (and is forwarded when forwarding is on).
C2_SizeMismatchDropped ==
    [][LET d == pkt'[1] IN
       /\ (/\ d.len >= 29
           /\ HeaderPacketId(d) \in DOMAIN PACKET_SIZES
           /\ d.len # PACKET_SIZES[HeaderPacketId(d)])
             => NothingDone /\ outcome' = "SizeMismatch"
       /\ (d.len >= 29 /\ HeaderPacketId(d) \notin DOMAIN PACKET_SIZES)
             => /\ outcome' = "Accepted"
                /\ ForwardingOn => Len(sent') = 1]_vars

\* C2 happens: an oversized Session datagram arrived at a coordinator that
\* forwards and whose snapshot earlier packets have changed
C2_Witness ==
    /\ pkt # None
    /\ HeaderPacketId(pkt[1]) = PACKET_ID_SESSION
    /\ pkt[1].len = PACKET_SIZES[PACKET_ID_SESSION] + 1
    /\ ForwardingOn
    /\ data # InitData

\* this step is a Telemetry or LapData packet that notified the listeners
HfNotifiedStep ==
    /\ outcome' = "Accepted"
    /\ HeaderPacketId(pkt'[1]) \in {PACKET_ID_CAR_TELEMETRY, PACKET_ID_LAP_DATA}
    /\ Notified(steps')

HfSpacing ==
    lastHfNote # None /\ prevHfNote # None
        => lastHfNote[1] - prevHfNote[1] >= 100

\* this step and the one before it are accepted LapData packets 50 ms apart
LapPair50 ==
    /\ pkt # None
    /\ outcome = "Accepted" /\ HeaderPacketId(pkt[1]) = PACKET_ID_LAP_DATA
    /\ outcome' = "Accepted" /\ HeaderPacketId(pkt'[1]) = PACKET_ID_LAP_DATA
    /\ clock' - clock = 50

\* C4 as stated: two notifications triggered by Telemetry or LapData packets
\* are at least 100 ms apart, and two accepted LapData packets 50 ms apart
\* produce exactly one notification.
C4_ExactlyOneOfTwo ==
    /\ []HfSpacing
    /\ [][LapPair50 => NotifyCount(steps) + NotifyCount(steps') = 1]_vars

\* C4, amended: two notifications triggered by Telemetry or LapData packets
\* are at least 100 ms apart, and two accepted LapData packets 50 ms apart
\* produce at most one notification: the second is suppressed whenever the
\* first notified.
C4_AtMostOneOfTwo ==
    /\ []HfSpacing
    /\ [][LapPair50 => /\ NotifyCount(steps) + NotifyCount(steps') <= 1
                       /\ Notified(steps) => ~Notified(steps')]_vars

\* C4 happens: a LapData packet was suppressed 50 ms after a LapData packet
\* notified, itself at least the second Telemetry/LapData notification
C4_Witness ==
    /\ pkt # None
    /\ outcome = "Accepted"
    /\ HeaderPacketId(pkt[1]) = PACKET_ID_LAP_DATA
    /\ ~Notified(steps)
    /\ lastHfNote = <<clock - 50, PACKET_ID_LAP_DATA>>
    /\ prevHfNote # None

\* C5: every accepted Session, CarStatus, CarDamage, Event or Participants
\* packet notifies the listeners exactly once, however little time has passed
\* since the notification before it.
C5_OtherTypesAlwaysNotify ==
    (/\ pkt # None
     /\ WellSized(pkt[1])
     /\ HeaderPacketId(pkt[1]) \in
           {PACKET_ID_SESSION, PACKET_ID_CAR_STATUS, PACKET_ID_CAR_DAMAGE,
            PACKET_ID_EVENT, PACKET_ID_PARTICIPANTS})
        => NotifyCount(steps) = 1

\* C5 happens: a Session packet notified in the same millisecond as the
\* Telemetry/LapData notification before it
C5_Witness ==
    /\ pkt # None
    /\ WellSized(pkt[1])
    /\ HeaderPacketId(pkt[1]) = PACKET_ID_SESSION
    /\ NotifyCount(steps) = 1
    /\ lastHfNote # None /\ lastHfNote[1] = clock

\* C6: while the coordinator forwards, every datagram that passes the header
\* and size checks, whatever its packet id, is sent exactly once, to the
\* configured destination, byte for byte as received, before any decoder runs.
C6_ForwardedVerbatimFirst ==
    (pkt # None /\ WellSized(pkt[1]) /\ ForwardingOn)
        => /\ Len(sent) = 1
           /\ sent[1].data = pkt[1]
           /\ sent[1].dest = <<entry.forward_ip, entry.forward_port>>
           /\ steps # <<>> /\ steps[1] = "sendto"
           /\ \A i \in 2..Len(steps) : steps[i] # "sendto"

\* C6 happens: a datagram of a packet id without decoder or known size, with
\* payload bytes, was forwarded
C6_Witness ==
    /\ pkt # None
    /\ ForwardingOn
    /\ HeaderPacketId(pkt[1]) = 200
    /\ ByteAt(Payload(pkt[1]), 3) = 7
    /\ Len(sent) = 1

\* C7: when the sendto() of a datagram fails, the datagram is decoded, the
\* snapshot updated and the notification decided exactly as without
\* forwarding, and no exception leaves process_packet.
C7_SendFailureIgnored ==
    [][(sent' # <<>> /\ ~sent'[1].ok) =>
          \E r \in {ProcessPacket(data, _last_update, None, None,
                                  pkt'[1], clock', TRUE)} :
              /\ data' = r.data
              /\ _last_update' = r.last_update
              /\ steps' = <<"sendto">> \o r.steps
              /\ ~raised']_vars

\* C7 happens: the forwarding of a LapData datagram failed, and the datagram
\* was decoded and notified
C7_Witness ==
    /\ pkt # None
    /\ sent # <<>> /\ ~sent[1].ok
    /\ HeaderPacketId(pkt[1]) = PACKET_ID_LAP_DATA
    /\ data.lap_data # EmptyDict
    /\ Notified(steps)

\* the car-damage terminal flag of a snapshot (0 while the key is absent)
Terminal(D) == DictGetDefault(D.car_damage, "terminal", 0)

\* C8: an accepted RTMT event whose car index is the player car index of its
\* header and whose reason is 3 (terminal damage) sets the terminal flag; an
\* RTMT for another car or with another reason leaves the flag as it was.
C8_RetirementSetsTerminal ==
    [][LET d == pkt'[1]
           payload == Payload(d)
       IN  (/\ WellSized(d)
            /\ HeaderPacketId(d) = PACKET_ID_EVENT
            /\ AsSeq(Slice(payload, 0, 4)) = RTMT)
           => IF /\ ByteAt(payload, 4) = HeaderPlayerCarIndex(d)
                 /\ ByteAt(payload, 5) = 3
              THEN Terminal(data') = 1
              ELSE data'.car_damage = data.car_damage]_vars

\* C9: once the terminal flag is true it stays true, whatever packets follow:
\* no CarDamage packet, and no other packet, clears it.
C9_TerminalSticky ==
    [][Terminal(data) = 1 => Terminal(data') = 1]_vars

\* C9 happens: a CarDamage packet for a damaged player car was decoded and the
\* flag is still true
C9_Witness ==
    /\ pkt # None
    /\ outcome = "Accepted"
    /\ HeaderPacketId(pkt[1]) = PACKET_ID_CAR_DAMAGE
    /\ "has_damage" \in DOMAIN data.car_damage
    /\ data.car_damage.has_damage = 1
    /\ Terminal(data) = 1

\* the cars whose record has 1 in the byte the leader scan reads
Leaders(payload) == {k \in 0..21 : ByteAt(payload, k * 57 + 22) = 1}

\* C10: after an accepted LapData packet in which exactly one car record k has
\* position 1, the leader index of the snapshot is k, whatever the player car
\* index of the header (255 included).
C10_LeaderWhateverFocus ==
    (/\ pkt # None
     /\ WellSized(pkt[1])
     /\ HeaderPacketId(pkt[1]) = PACKET_ID_LAP_DATA
     /\ Cardinality(Leaders(Payload(pkt[1]))) = 1)
        => \A k \in Leaders(Payload(pkt[1])) :
              DictGet(data.session, "leader_index") = Some(k)

-----------------------------------------------------------------------------
\* The decoders called on payloads of any length

\* parse_*_packet(payload[, player_index]) called with the payload and the
\* player car index of d: the decoder process_packet would choose, without its
\* size check
decoder_call(d) ==
    /\ ~HeaderTooShort(d)
    /\ \E dec \in {Dispatch(data, HeaderPacketId(d), Payload(d),
                            HeaderPlayerCarIndex(d))} :
          /\ data' = dec.res.data
          /\ steps' = dec.calls
          /\ raised' = dec.res.raised
    /\ pkt' = Some(d)
    /\ sent' = <<>>
    /\ outcome' = "Decoded"
    /\ UNCHANGED <<entry, _last_update, _forward_socket, _forward_dest, clock,
                   lastNote, lastHfNote, prevHfNote, transport, sockets, setup>>

\* the size of one car's record in the payload of the four per-car types
RecordSize ==
    (PACKET_ID_LAP_DATA :> 57) @@ (PACKET_ID_CAR_TELEMETRY :> 60) @@
    (PACKET_ID_CAR_STATUS :> 55) @@ (PACKET_ID_CAR_DAMAGE :> 46)

\* payload bytes giving the record of each car k of cars the byte k + 1 at
\* offset at of the record
RecordBytes(size, cars, at) ==
    [j \in {k * size + at : k \in cars} |-> ((j - at) \div size) + 1]

\* per-car payloads: full, cut to 10 records, and cut one byte short of 11
PerCarInputs ==
    UNION {{Datagram(PACKET_HEADER_SIZE + n, id, car,
                     RecordBytes(RecordSize[id], {0, 10, 21},
                                 IF id = PACKET_ID_CAR_STATUS THEN 4 ELSE 0)) :
               car \in {0, 10, 21, 255},
               n \in {PACKET_SIZES[id] - PACKET_HEADER_SIZE,
                      10 * RecordSize[id], 11 * RecordSize[id] - 1}} :
           id \in DOMAIN RecordSize}

NextPerCar == \E d \in PerCarInputs : decoder_call(d)

SpecPerCar == InitDefault /\ [][NextPerCar]_vars

\* the per-car datagram d names a car whose record does not fit its payload
OffsetOutOfRange(d) ==
    /\ HeaderPacketId(d) \in DOMAIN RecordSize
    /\ LET size == RecordSize[HeaderPacketId(d)]
       IN  HeaderPlayerCarIndex(d) * size + size > Payload(d).len

\* C11: when the player car index times the record size plus the record size
\* exceeds the payload length, the LapData, Telemetry, CarStatus and CarDamage
\* decoders leave their field-group and the rest of the snapshot as they were
\* and raise nothing (an access beyond the end of the payload would raise).
C11_OffsetOutOfRangeUntouched ==
    [][OffsetOutOfRange(pkt'[1]) => data' = data /\ ~raised']_vars

\* C11 happens: with every per-car field-group filled by earlier packets, the
\* Telemetry decoder was called for car 21 on a payload of 10 records
C11_Witness ==
    /\ pkt # None
    /\ HeaderPacketId(pkt[1]) = PACKET_ID_CAR_TELEMETRY
    /\ HeaderPlayerCarIndex(pkt[1]) = 21
    /\ Payload(pkt[1]).len = 600
    /\ steps = <<"parse_car_telemetry_packet">>
    /\ data.car_telemetry # EmptyDict
    /\ data.lap_data # EmptyDict
    /\ data.car_status # EmptyDict
    /\ data.car_damage # EmptyDict

-----------------------------------------------------------------------------
\* Session status: the Session rule and the events

\* Session payloads: session type 0 or 1, and 0, 1 or 256 s left
SessionBody(session_type, time_left) ==
    (6 :> session_type) @@ (9 :> time_left % 256) @@ (10 :> time_left \div 256)

StatusInputs ==
    {Sized(PACKET_ID_SESSION, 0, SessionBody(ty, left)) :
        ty \in {0, 1}, left \in {0, 1, 256}}
    \cup {Sized(PACKET_ID_EVENT, 0, EventBody(code, 3, 0)) :
            code \in {SSTA, SEND, CHQF, LGOT, STLG}}
    \cup {Sized(PACKET_ID_LAP_DATA, 0, NoBody)}

NextStatus == \E d \in StatusInputs, dt \in {0, 100} : process_packet(d, dt, TRUE)

SpecStatus == InitDefault /\ [][NextStatus]_vars

\* the session-status of a snapshot
Status(D) == D.events.session_status

\* the datagram is an accepted packet of type id
AcceptedOf(d, id) == WellSized(d) /\ HeaderPacketId(d) = id

\* C12: on every accepted Session packet, if the session type is not 0 and the
\* time left is above 0 and the status is Unknown or Inactive, the status
\* becomes Active; if the session type is 0 or no time is left and the status
\* is Active, it becomes Ended; in every other case the status stays.
C12_SessionRule ==
    [][LET d == pkt'[1]
           live == U8(Payload(d), 6) # 0 /\ U16(Payload(d), 9) > 0
       IN  AcceptedOf(d, PACKET_ID_SESSION) =>
              Status(data') =
                 IF live /\ Status(data) \in {"Unknown", "Inactive"}
                 THEN "Active"
                 ELSE IF ~live /\ Status(data) = "Active"
                 THEN "Ended"
                 ELSE Status(data)]_vars

\* C12 happens: a Session packet of type 1 with 256 s left (low byte 0) was
\* decoded and the status is Active, which only the Session rule sets
C12_Witness ==
    /\ pkt # None
    /\ AcceptedOf(pkt[1], PACKET_ID_SESSION)
    /\ U8(Payload(pkt[1]), 6) = 1
    /\ U16(Payload(pkt[1]), 9) = 256
    /\ Status(data) = "Active"
    /\ Notified(steps)

\* the datagram is an accepted SSTA, SEND or CHQF event
StatusEvent(d) ==
    /\ AcceptedOf(d, PACKET_ID_EVENT)
    /\ AsSeq(Slice(Payload(d), 0, 4)) \in {SSTA, SEND, CHQF}

\* C13: once the status is Started, Ended or Chequered Flag, no Session packet
\* (and no packet other than an SSTA, SEND or CHQF event) changes it.
C13_EventStatusKept ==
    [][(/\ Status(data) \in {"Started", "Ended", "Chequered Flag"}
        /\ Status(data') # Status(data))
          => StatusEvent(pkt'[1])]_vars

\* C13 happens: a Session packet of a live session (type 1, time left) was
\* decoded after an SSTA event, and the status is still Started
C13_Witness ==
    /\ pkt # None
    /\ AcceptedOf(pkt[1], PACKET_ID_SESSION)
    /\ U8(Payload(pkt[1]), 6) = 1
    /\ U16(Payload(pkt[1]), 9) > 0
    /\ "session_time_left" \in DOMAIN data.session
    /\ data.session.session_time_left = U16(Payload(pkt[1]), 9)
    /\ Status(data) = "Started"

-----------------------------------------------------------------------------
\* Datagrams of any length and content

\* a Participants payload: the count byte, then for each entry i of names the
\* bytes names[i] at the name field of record i
ParticipantsBody(num_cars, names) ==
    (0 :> num_cars) @@
    [j \in UNION {{1 + i * 57 + 7 + k - 1 : k \in 1..Len(names[i])} :
                     i \in DOMAIN names}
       |-> LET i == (j - 8) \div 57 IN names[i][j - 8 - i * 57 + 1]]

HostileInputs ==
    \* lengths around the header, with the ids of decoded and other types
    {Datagram(n, id, 255, NoBody) :
        n \in {0, 28, 29},
        id \in {PACKET_ID_PARTICIPANTS, PACKET_ID_LAP_POSITIONS}}
    \* payloads too short for what their decoder indexes
    \cup {Datagram(PACKET_HEADER_SIZE + 4, PACKET_ID_EVENT, 0, EventBody(code, 0, 0)) :
            code \in {STLG, FTLP, RTMT}}
    \cup {Datagram(PACKET_HEADER_SIZE + 50, PACKET_ID_SESSION, 0, SessionBody(1, 1))}
    \* well-sized packets with the largest indexes and counts, and bytes that
    \* are neither ASCII nor UTF-8
    \cup {Sized(PACKET_ID_EVENT, 255, EventBody(code, 255, 255)) :
            code \in {STLG, FTLP, RTMT, <<255, 254, 0, 128>>}}
    \cup {Sized(PACKET_ID_PARTICIPANTS, 255,
                ParticipantsBody(255, (0 :> <<255, 254>>) @@ (21 :> <<65>>)))}
    \cup {Sized(PACKET_ID_SESSION, 255,
                SessionBody(255, 65535) @@ (124 :> 255) @@ (126 :> 255))}
    \cup {Sized(id, 255, NoBody) :
            id \in {PACKET_ID_CAR_TELEMETRY, PACKET_ID_CAR_DAMAGE}}
    \cup {Datagram(2000, 255, 255, (0 :> 255))}

NextHostile == \E d \in HostileInputs, dt \in {0, 150}, sendOk \in BOOLEAN :
                   process_packet(d, dt, sendOk)

SpecHostile == Init /\ [][NextHostile]_vars

\* C14: whatever the length and the bytes of a datagram and whatever the
\* snapshot, process_packet returns normally: no exception of the header
\* decoding, of a decoder or of the forwarder leaves it.
C14_NoExceptionEscapes == ~raised

\* C14 happens: with a failed sendto(), process_packet decoded a Participants
\* packet of 255 entries whose first name is not UTF-8, and notified
C14_Witness ==
    /\ pkt # None
    /\ AcceptedOf(pkt[1], PACKET_ID_PARTICIPANTS)
    /\ ByteAt(Payload(pkt[1]), 0) = 255
    /\ sent # <<>> /\ ~sent[1].ok
    /\ steps = <<"sendto", "parse_participants_packet", "async_set_updated_data">>
    /\ data.events.start_lights = 255

-----------------------------------------------------------------------------
\* parse_session_packet on payloads of any length

\* Session payloads of n bytes: all zero; type 1 with no time left and safety
\* car 1; type 1 with 1 s left, safety car 2 and one forecast sample (5
\* minutes, 40 % rain)
SessionPayloads ==
    {Datagram(PACKET_HEADER_SIZE + n, PACKET_ID_SESSION, 0, body) :
        n \in {0, 18, 19, 124, 125, 126, 127, 134, 135, 724},
        body \in {NoBody,
                  SessionBody(1, 0) @@ (124 :> 1),
                  SessionBody(1, 1) @@ (0 :> 3) @@ (124 :> 2) @@ (126 :> 1)
                      @@ (128 :> 5) @@ (134 :> 40)}}

NextSession == \E d \in SessionPayloads : decoder_call(d)

SpecSession == InitDefault /\ [][NextSession]_vars

\* the parts of the snapshot parse_session_packet writes
SessionState(D) == <<D.session, Status(D), D.forecast>>

\* the session group after a complete update from this payload
SessionComplete(D, payload) ==
    /\ payload.len >= 19
    /\ {"weather", "session_type", "session_time_left", "safety_car_status"}
          \subseteq DOMAIN D.session
    /\ D.session.weather = U8(payload, 0)
    /\ D.session.session_type = U8(payload, 6)
    /\ D.session.session_time_left = U16(payload, 9)
    /\ D.session.safety_car_status = ByteAt(payload, 124)

\* C15 as stated: for a Session payload of any length parse_session_packet
\* either applies its complete update or leaves the session group, the status
\* and the forecast as they were, and in both cases returns without raising.
C15_SessionAllOrNothing ==
    [][HeaderPacketId(pkt'[1]) = PACKET_ID_SESSION =>
          /\ ~raised'
          /\ \/ SessionState(data') = SessionState(data)
             \/ SessionComplete(data', Payload(pkt'[1]))]_vars

\* a struct.error of parse_session_packet (a payload under 19 bytes) leaves the
\* snapshot as it was and is swallowed
SessionStructErrorAborts ==
    [][(/\ HeaderPacketId(pkt'[1]) = PACKET_ID_SESSION
        /\ Payload(pkt'[1]).len < 19) => data' = data /\ ~raised']_vars

\* parse_session_packet raised after replacing the session group: a payload of
\* 19 to 124 bytes
SessionPartialThenRaise ==
    /\ pkt # None
    /\ HeaderPacketId(pkt[1]) = PACKET_ID_SESSION
    /\ Payload(pkt[1]).len \in 19..124
    /\ raised
    /\ data.session # EmptyDict
    /\ Status(data) = "Active"

-----------------------------------------------------------------------------
\* The listener and the forwarding socket over the life of the coordinator

\* the id the next socket gets
NewSocket == Cardinality(DOMAIN sockets) + 1

\* socks after close() on each socket of ids
Close(socks, ids) ==
    [s \in DOMAIN socks |->
        IF \E i \in 1..Len(ids) : ids[i] = s
        THEN [socks[s] EXCEPT !.closes = @ + 1] ELSE socks[s]]

\* what every call other than process_packet leaves alone
NoPacket ==
    /\ pkt' = None
    /\ sent' = <<>>
    /\ UNCHANGED <<data, _last_update, clock, lastNote, lastHfNote, prevHfNote>>

\* async_setup_entry -> async_start, once after construction; ok: whether
\* create_datagram_endpoint succeeds
async_start(ok) ==
    /\ setup = "constructed"
    /\ Cardinality(DOMAIN sockets) < MaxSockets
    /\ setup' = "started"
    /\ IF ok
       THEN /\ transport' = Some(NewSocket)
            /\ sockets' = sockets @@
                  (NewSocket :> [kind |-> "transport", dest |-> None, closes |-> 0])
       ELSE UNCHANGED <<transport, sockets>>
    /\ steps' = <<"create_datagram_endpoint">>
    /\ raised' = FALSE
    /\ outcome' = IF ok THEN "Started" ELSE "StartFailed"
    /\ NoPacket
    /\ UNCHANGED <<entry, _forward_socket, _forward_dest>>

async_stop ==
    /\ \E r \in {AsyncStop(transport, _forward_socket)} :
          /\ transport' = r.transport
          /\ _forward_socket' = r.forward_socket
          /\ sockets' = Close(sockets, r.closed)
          /\ steps' = [i \in 1..Len(r.closed) |-> "close"]
    /\ raised' = FALSE
    /\ outcome' = "Stopped"
    /\ NoPacket
    /\ UNCHANGED <<entry, _forward_dest, setup>>

\* the options flow stores new options in the config entry
options_changed(e) ==
    /\ e # entry
    /\ entry' = e
    /\ steps' = <<>>
    /\ raised' = FALSE
    /\ outcome' = "OptionsChanged"
    /\ NoPacket
    /\ UNCHANGED <<_forward_socket, _forward_dest, transport, sockets, setup>>

async_update_options ==
    /\ \E r \in {AsyncUpdateOptions(entry, _forward_socket, NewSocket)} :
          /\ r.opened => Cardinality(DOMAIN sockets) < MaxSockets
          /\ _forward_socket' = r.forward_socket
          /\ _forward_dest' = r.forward_dest
          /\ sockets' =
                IF r.opened
                THEN Close(sockets, r.closed) @@
                        (NewSocket :> [kind |-> "forward", dest |-> r.forward_dest,
                                       closes |-> 0])
                ELSE Close(sockets, r.closed)
          /\ steps' = [i \in 1..Len(r.closed) |-> "close"]
                      \o (IF r.opened THEN <<"socket">> ELSE <<>>)
    /\ raised' = FALSE
    /\ outcome' = "OptionsUpdated"
    /\ NoPacket
    /\ UNCHANGED <<entry, transport, setup>>

\* the options: forwarding off, on to two hosts, on without host, on with port 0
LifecycleEntries ==
    Entries
    \cup {[forward_enabled |-> TRUE, forward_ip |-> "10.0.0.3", forward_port |-> 9999],
          [forward_enabled |-> TRUE, forward_ip |-> "10.0.0.2", forward_port |-> 0]}

LifecycleInputs ==
    {Sized(PACKET_ID_CAR_STATUS, 0, (4 :> 1)),
     Datagram(PACKET_HEADER_SIZE, PACKET_ID_TIME_TRIAL, 0, NoBody)}

NextLifecycle ==
    \/ \E d \in LifecycleInputs, dt \in {0, 150}, sendOk \in BOOLEAN :
          process_packet(d, dt, sendOk)
    \/ \E ok \in BOOLEAN : async_start(ok)
    \/ async_stop
    \/ \E e \in LifecycleEntries : options_changed(e)
    \/ async_update_options

SpecLifecycle == Init /\ [][NextLifecycle]_vars

\* the sockets that are open: created and not closed
Open(socks) == {s \in DOMAIN socks : socks[s].closes = 0}

\* C16: async_stop closes and unsets the transport and the forwarding socket
\* when they are set, and raises nothing; when neither is set it changes
\* nothing; after it no socket is left open, and no socket is ever closed twice.
C16_StopClosesOnce ==
    /\ [](\A s \in DOMAIN sockets : sockets[s].closes <= 1)
    /\ [][outcome' = "Stopped" =>
             /\ transport' = None /\ _forward_socket' = None
             /\ ~raised'
             /\ Open(sockets') = {}
             /\ \A s \in DOMAIN sockets :
                   sockets'[s].closes = 1 /\ sockets[s].closes = 0
                      <=> (transport = Some(s) \/ _forward_socket = Some(s))
             /\ (transport = None /\ _forward_socket = None)
                   => /\ sockets' = sockets
                      /\ UNCHANGED <<entry, data, _last_update, _forward_dest>>]_vars

\* C16 happens: async_stop was called again after it had closed a transport
\* and a forwarding socket
C16_Witness ==
    /\ outcome = "Stopped"
    /\ steps = <<>>
    /\ \E s, t \in DOMAIN sockets :
          /\ sockets[s].kind = "transport" /\ sockets[s].closes = 1
          /\ sockets[t].kind = "forward" /\ sockets[t].closes = 1

\* the options of e ask for forwarding: enabled, with a host and a port
WantsForwarding(e) == e.forward_enabled /\ e.forward_ip # "" /\ e.forward_port # 0

C18_NoSendOnClosedSocket ==
    [][/\ sent' # <<>> =>
             /\ _forward_socket # None
             /\ _forward_socket[1] \in Open(sockets)
             /\ \A i \in 1..Len(sent') :
                   sent'[i].dest = sockets[_forward_socket[1]].dest
       /\ pkt' = None => data' = data /\ _last_update' = _last_update]_vars

\* C18 happens: a datagram was forwarded on a socket opened by
\* async_update_options after async_stop had closed the one before
C18_Witness ==
    /\ pkt # None
    /\ Len(sent) = 1
    /\ _forward_socket # None
    /\ sockets[_forward_socket[1]].dest = sent[1].dest
    /\ \E s \in DOMAIN sockets :
          sockets[s].kind = "forward" /\ sockets[s].closes = 1
    /\ transport = None /\ setup = "started"
    /\ data.car_status # EmptyDict

-----------------------------------------------------------------------------
\* The participant registry

\* Participants payloads: a name that is not UTF-8 between two that are; two
\* other names; a cut two-byte character; no entry; 30 announced entries with a
\* name for car 21; a two-byte character and a name with a NUL inside
ParticipantsInputs ==
    {Sized(PACKET_ID_PARTICIPANTS, 0, body) :
        body \in {ParticipantsBody(3, (0 :> <<65>>) @@ (1 :> <<255, 254>>)
                                      @@ (2 :> <<68>>)),
                  ParticipantsBody(2, (0 :> <<66>>) @@ (1 :> <<67>>)),
                  ParticipantsBody(1, (0 :> <<195>>)),
                  ParticipantsBody(0, (0 :> <<69>>)),
                  ParticipantsBody(30, (21 :> <<90>>)),
                  ParticipantsBody(2, (0 :> <<195, 169>>) @@ (1 :> <<65, 0, 66>>))}}
    \cup {Sized(PACKET_ID_SESSION, 0, NoBody),
          Sized(PACKET_ID_EVENT, 0, EventBody(SSTA, 0, 0))}

NextParticipants == \E d \in ParticipantsInputs, dt \in {0, 100} :
                        process_packet(d, dt, TRUE)

SpecParticipants == InitDefault /\ [][NextParticipants]_vars

\* the name bytes of entry i of a Participants payload, up to the first NUL
EntryName(payload, i) ==
    UpToNul(Slice(payload, 1 + (i * 57) + 7, 1 + (i * 57) + 7 + 32), 0)

\* entry i of the Participants datagram d is decoded: announced by the count
\* byte, inside the payload, and with a name that is UTF-8
EntryDecoded(d, i) ==
    /\ AcceptedOf(d, PACKET_ID_PARTICIPANTS)
    /\ i < ByteAt(Payload(d), 0)
    /\ 1 + (i * 57) + 57 <= Payload(d).len
    /\ Utf8Valid(EntryName(Payload(d), i), 1)

\* C19: no entry of the registry is ever removed; each index holds the name
\* of the latest Participants packet that decoded its entry, so an entry whose
\* name is not UTF-8 keeps what was there and the later entries of the same
\* packet are stored.
C19_RegistryNeverShrinks ==
    [][\A i \in 0..255 :
          IF EntryDecoded(pkt'[1], i)
          THEN /\ i \in DOMAIN data'.participants
               /\ data'.participants[i] = EntryName(Payload(pkt'[1]), i)
          ELSE IF i \in DOMAIN data.participants
          THEN /\ i \in DOMAIN data'.participants
               /\ data'.participants[i] = data.participants[i]
          ELSE i \notin DOMAIN data'.participants]_vars

\* C19 happens: the packet whose entry 1 is not UTF-8 stored entries 0 and 2
\* and left entry 1 with the name of an earlier packet
C19_Witness ==
    /\ pkt # None
    /\ AcceptedOf(pkt[1], PACKET_ID_PARTICIPANTS)
    /\ ByteAt(Payload(pkt[1]), 0) = 3
    /\ ~Utf8Valid(EntryName(Payload(pkt[1]), 1), 1)
    /\ DOMAIN data.participants = {0, 1, 2}
    /\ data.participants[0] = <<65>>
    /\ data.participants[1] = <<67>>
    /\ data.participants[2] = <<68>>

-----------------------------------------------------------------------------
\* Dispatch

\* one well-sized datagram of each decoded type, and the types without decoder
NextDispatch == \E d \in Accepted \cup Undecoded, dt \in {0, 150} :
                    process_packet(d, dt, TRUE)

SpecDispatch == Init /\ [][NextDispatch]_vars

\* the decoder of each decoded packet type
DecoderOf ==
    (PACKET_ID_SESSION :> "parse_session_packet") @@
    (PACKET_ID_LAP_DATA :> "parse_lap_data_packet") @@
    (PACKET_ID_CAR_TELEMETRY :> "parse_car_telemetry_packet") @@
    (PACKET_ID_CAR_STATUS :> "parse_car_status_packet") @@
    (PACKET_ID_CAR_DAMAGE :> "parse_car_damage_packet") @@
    (PACKET_ID_PARTICIPANTS :> "parse_participants_packet") @@
    (PACKET_ID_EVENT :> "parse_event_packet")

\* the decoder calls among the steps of a call, in order
DecoderCalls(st) ==
    SelectSeq(st, LAMBDA x : x \notin {"sendto", "async_set_updated_data"})

\* C20: for every accepted datagram of one of the seven decoded types exactly
\* one decoder is called, once, the one of the header's packet id; for every
\* other packet id no decoder is called, the snapshot stays as it was and
\* nobody is notified.
C20_DispatchSingle ==
    [][LET d == pkt'[1]
           id == HeaderPacketId(d)
       IN  WellSized(d) =>
              IF id \in DOMAIN DecoderOf
              THEN DecoderCalls(steps') = <<DecoderOf[id]>>
              ELSE /\ DecoderCalls(steps') = <<>>
                   /\ data' = data
                   /\ ~Notified(steps')]_vars

\* C20 happens: a Motion packet (a type with a known size and no decoder) was
\* accepted and forwarded by a coordinator whose snapshot holds decoded data
C20_Witness ==
    /\ pkt # None
    /\ AcceptedOf(pkt[1], PACKET_ID_MOTION)
    /\ outcome = "Accepted"
    /\ steps = <<"sendto">>
    /\ data.session # EmptyDict
    /\ data.car_telemetry # EmptyDict

-----------------------------------------------------------------------------
\* Decoding the same packet again

\* the four bytes of a uint32 at payload offset off
U32Bytes(off, v) ==
    (off :> v % 256) @@ (off + 1 :> (v \div 256) % 256) @@
    (off + 2 :> (v \div 65536) % 256) @@ (off + 3 :> v \div 16777216)

\* one or two packets of every decoded type, with content
RepeatInputs ==
    {Sized(PACKET_ID_LAP_DATA, 0,
           U32Bytes(0, 61234) @@ (42 :> 2) @@ PositionBytes(3 :> 1)),
     Sized(PACKET_ID_LAP_DATA, 3, (3 * 57 + 42 :> 5) @@ PositionBytes(0 :> 1)),
     Sized(PACKET_ID_SESSION, 0, SessionBody(1, 1) @@ (126 :> 1) @@ (134 :> 40)),
     Sized(PACKET_ID_CAR_TELEMETRY, 0, (0 :> 200) @@ (15 :> 7)),
     Sized(PACKET_ID_CAR_STATUS, 0, (4 :> 1) @@ (27 :> 12)),
     Sized(PACKET_ID_CAR_DAMAGE, 0, (28 :> 10)),
     Sized(PACKET_ID_EVENT, 0, EventBody(SSTA, 0, 0)),
     Sized(PACKET_ID_PARTICIPANTS, 0,
           ParticipantsBody(2, (0 :> <<65>>) @@ (1 :> <<66>>)))}

NextRepeat == \E d \in RepeatInputs, dt \in {0, 150} : process_packet(d, dt, TRUE)

SpecRepeat == InitDefault /\ [][NextRepeat]_vars

\* C21: after any accepted packet, processing the same datagram once more
\* leaves the whole snapshot (the lap data of a LapData packet included) as the
\* first processing left it.
C21_DecodingIdempotent ==
    (pkt # None /\ WellSized(pkt[1])) =>
        \A dt \in {0, 150} :
            ProcessPacket(data, _last_update, _forward_socket, _forward_dest,
                          pkt[1], clock + dt, TRUE).data = data

\* C21 happens: a LapData packet with a lap time, a lap number and a leader was
\* decoded over the lap data and the session of earlier packets
C21_Witness ==
    /\ pkt # None
    /\ AcceptedOf(pkt[1], PACKET_ID_LAP_DATA)
    /\ HeaderPlayerCarIndex(pkt[1]) = 0
    /\ data.lap_data # EmptyDict
    /\ data.lap_data.last_lap_time = 61234
    /\ data.lap_data.current_lap_num = 2
    /\ DictGet(data.session, "leader_index") = Some(3)
    /\ "weather" \in DOMAIN data.session
    /\ ~Notified(steps)

-----------------------------------------------------------------------------
\* The lap time string

\* last lap times in ms: the ends of the millisecond, second, minute and hour
\* ranges, and the largest value below 2^31
LapTimes ==
    {0, 1, 999, 1000, 59999, 60000, 61234, 599999, 600000, 3599999, 3600000,
     3661001, 7199999, 36000000, 2147483647}

LapTimeInputs ==
    {Sized(PACKET_ID_LAP_DATA, 0, U32Bytes(0, ms)) : ms \in LapTimes}

NextLapTime == \E d \in LapTimeInputs, dt \in {0, 150} : process_packet(d, dt, TRUE)

SpecLapTime == InitDefault /\ [][NextLapTime]_vars

\* n written with `width` digits
Padded(n, width) ==
    IF width = 2 THEN Digit(n \div 10) \o Digit(n % 10)
    ELSE Digit(n \div 100) \o Digit((n \div 10) % 10) \o Digit(n % 10)

\* "M:SS.mmm" with M = floor(ms / 60000) mod 60, SS = floor(ms / 1000) mod 60
\* and mmm = ms mod 1000
LapString(ms) ==
    LET M == (ms \div 60000) % 60
    IN  (IF M < 10 THEN Digit(M) ELSE Padded(M, 2)) \o ":"
        \o Padded((ms \div 1000) % 60, 2) \o "." \o Padded(ms % 1000, 3)

\* the strings whose seconds part is 60.000
Seconds60 ==
    {(IF M < 10 THEN Digit(M) ELSE Padded(M, 2)) \o ":60.000" : M \in 0..59}

\* C22: the lap string stored for a last lap time ms is "0:00.000" when ms = 0
\* and otherwise M:SS.mmm with M = floor(ms / 60000) mod 60, SS =
\* floor(ms / 1000) mod 60 in two digits and mmm = ms mod 1000 in three; 61234
\* gives "1:01.234", 60000 gives "1:00.000", 3600000 gives "0:00.000", and the
\* seconds are never 60.000.
C22_LapTimeFormat ==
    (pkt # None /\ AcceptedOf(pkt[1], PACKET_ID_LAP_DATA)) =>
        LET ms == U32(Payload(pkt[1]), 0)
            str == data.lap_data.last_lap_str
        IN  /\ data.lap_data.last_lap_time = ms
            /\ ms = 0 => str = "0:00.000"
            /\ ms > 0 => str = LapString(ms)
            /\ ms = 61234 => str = "1:01.234"
            /\ ms = 60000 => str = "1:00.000"
            /\ ms = 3600000 => str = "0:00.000"
            /\ str \notin Seconds60

\* C22 happens: a lap time of one hour, one minute, one second and one
\* millisecond was decoded and formatted
C22_Witness ==
    /\ pkt # None
    /\ AcceptedOf(pkt[1], PACKET_ID_LAP_DATA)
    /\ U32(Payload(pkt[1]), 0) = 3661001
    /\ data.lap_data # EmptyDict
    /\ data.lap_data.last_lap_str = "1:01.001"

-----------------------------------------------------------------------------
\* The weather forecast

\* the bytes of forecast sample i: its minute offset and its rain probability
SampleBytes(i, time, rain) == (127 + i * 8 + 1 :> time) @@ (127 + i * 8 + 7 :> rain)

\* Session packets announcing 0, 1, 2, 74, 75 and 255 samples; the payload has
\* room for 74, and sample 74 has its minute offset inside it but not its end
ForecastInputs ==
    {Sized(PACKET_ID_SESSION, 0, SessionBody(1, left) @@ (126 :> n) @@ body) :
        n \in {0, 1, 2, 74, 75, 255}, left \in {0, 1},
        body \in {SampleBytes(0, 5, 40) @@ SampleBytes(1, 10, 0)
                      @@ SampleBytes(73, 120, 90) @@ SampleBytes(74, 9, 0),
                  SampleBytes(0, 0, 100) @@ SampleBytes(1, 15, 20)}}

NextForecast == \E d \in ForecastInputs, dt \in {0, 150} : process_packet(d, dt, TRUE)

SpecForecast == InitDefault /\ [][NextForecast]_vars

\* the whole 8-byte samples that fit in the payload after the count byte
SamplesThatFit(payload) == (payload.len - 127) \div 8

\* C23: an accepted Session packet with count byte n replaces the forecast,
\* whatever it was, by exactly min(n, whole samples that fit after the count
\* byte) entries in payload order, each with the minute-offset byte and the
\* rain-probability byte of its sample; n = 0 gives an empty forecast, and
\* nothing is raised.
C23_ForecastReplaced ==
    [][(pkt' # None /\ AcceptedOf(pkt'[1], PACKET_ID_SESSION)) =>
          LET payload == Payload(pkt'[1])
              n == ByteAt(payload, 126)
              m == Min(n, SamplesThatFit(payload))
          IN  /\ ~raised'
              /\ Len(data'.forecast) = m
              /\ n = 0 => data'.forecast = <<>>
              /\ \A k \in 1..m :
                    data'.forecast[k] =
                        [time |-> ByteAt(payload, 127 + (k - 1) * 8 + 1),
                         rain |-> ByteAt(payload, 127 + (k - 1) * 8 + 7)]]_vars

\* C23 happens: a packet announcing 255 samples left the 74 that fit, the
\* last of them with its own bytes
C23_Witness ==
    /\ pkt # None
    /\ AcceptedOf(pkt[1], PACKET_ID_SESSION)
    /\ ByteAt(Payload(pkt[1]), 126) = 255
    /\ Len(data.forecast) = 74
    /\ data.forecast[1] = [time |-> 5, rain |-> 40]
    /\ data.forecast[74] = [time |-> 120, rain |-> 90]

-----------------------------------------------------------------------------
\* The leader index across Session packets

\* the leader index of a snapshot, None while the key is absent
LeaderIndex(D) == DictGet(D.session, "leader_index")

\* C24: once a LapData packet has recorded a leader index, the index stays in
\* the snapshot: a Session packet (or any packet other than LapData) leaves it
\* as it was, and only a later LapData packet may change it.
C24_LeaderSurvivesSession ==
    [][LeaderIndex(data) # None =>
          /\ LeaderIndex(data') # None
          /\ HeaderPacketId(pkt'[1]) # PACKET_ID_LAP_DATA
                => LeaderIndex(data') = LeaderIndex(data)]_vars

-----------------------------------------------------------------------------
\* The position field and the leader scan

\* LapData packets whose records carry 1 in byte 41 (the field decoded as
\* car_position), in byte 22 (the byte the leader scan reads), in both or in
\* neither, for the focus car and for another car
PositionInputs ==
    {Sized(PACKET_ID_LAP_DATA, car, body) :
        car \in {0, 3},
        body \in {NoBody,
                  (41 :> 1),
                  (22 :> 1) @@ (41 :> 5),
                  (22 :> 1) @@ (41 :> 1),
                  (3 * 57 + 41 :> 1),
                  (3 * 57 + 22 :> 1) @@ (3 * 57 + 41 :> 2),
                  (41 :> 2) @@ (3 * 57 + 22 :> 1) @@ (3 * 57 + 41 :> 1)}}

NextPosition == \E d \in PositionInputs, dt \in {0, 150} : process_packet(d, dt, TRUE)

SpecPosition == InitDefault /\ [][NextPosition]_vars

\* the position field of car k's record, as the focus car's is decoded
RecordPosition(payload, k) == U8(payload, k * 57 + 41)

\* C25: after a LapData decode, if the stored car_position of the focus car is
\* 1 and no lower-indexed record has position 1, the leader index is the focus
\* car; and if this packet's scan set the leader index to the focus car, the
\* stored car_position is 1.
C25_PositionIsScanField ==
    (pkt # None /\ AcceptedOf(pkt[1], PACKET_ID_LAP_DATA)
     /\ HeaderPlayerCarIndex(pkt[1]) <= 21) =>
        LET payload == Payload(pkt[1])
            car == HeaderPlayerCarIndex(pkt[1])
        IN  /\ (/\ data.lap_data.car_position = 1
                /\ \A k \in 0..(car - 1) : RecordPosition(payload, k) # 1)
                   => LeaderIndex(data) = Some(car)
            /\ LeaderScan(payload, 0) = Some(car)
                   => data.lap_data.car_position = 1

-----------------------------------------------------------------------------
\* Throttled packets

\* Telemetry and LapData packets of focus car 0 with two contents each, and a
\* Session packet, whose notification is not throttled
SuppressInputs ==
    {Sized(PACKET_ID_CAR_TELEMETRY, 0, (0 :> 200) @@ (15 :> 7)),
     Sized(PACKET_ID_CAR_TELEMETRY, 0, (0 :> 120) @@ (15 :> 3) @@ (18 :> 1)),
     Sized(PACKET_ID_LAP_DATA, 0, U32Bytes(0, 61234) @@ (42 :> 2)),
     Sized(PACKET_ID_LAP_DATA, 0, U32Bytes(0, 60000) @@ (42 :> 3) @@ (22 :> 1)),
     Sized(PACKET_ID_SESSION, 0, SessionBody(1, 1))}

NextSuppress == \E d \in SuppressInputs, dt \in {0, 50, 100} :
                    process_packet(d, dt, TRUE)

SpecSuppress == InitDefault /\ [][NextSuppress]_vars

\* this step processes an accepted Telemetry or LapData packet less than
\* 100 ms after the last Telemetry/LapData notification
SuppressedStep ==
    /\ AcceptedOf(pkt'[1], PACKET_ID_CAR_TELEMETRY)
          \/ AcceptedOf(pkt'[1], PACKET_ID_LAP_DATA)
    /\ lastHfNote # None
    /\ clock' - lastHfNote[1] < 100

\* C26: an accepted Telemetry or LapData packet arriving less than 100 ms
\* after the last high-frequency notification is not notified, but its field
\* group in the snapshot is replaced by the values of its payload, and the
\* throttle timestamp stays at the time of that last notification.
C26_ThrottleKeepsUpdate ==
    [][SuppressedStep =>
          LET payload == Payload(pkt'[1])
          IN  /\ ~Notified(steps')
              /\ _last_update' = _last_update
              /\ _last_update' = lastHfNote[1]
              /\ HeaderPacketId(pkt'[1]) = PACKET_ID_CAR_TELEMETRY =>
                    /\ data'.car_telemetry # EmptyDict
                    /\ data'.car_telemetry.speed = U16(payload, 0)
                    /\ data'.car_telemetry.gear = I8(payload, 15)
                    /\ data'.car_telemetry.drs = U8(payload, 18)
                    /\ data'.lap_data = data.lap_data
              /\ HeaderPacketId(pkt'[1]) = PACKET_ID_LAP_DATA =>
                    /\ data'.lap_data # EmptyDict
                    /\ data'.lap_data.last_lap_time = U32(payload, 0)
                    /\ data'.lap_data.current_lap_num = U8(payload, 42)
                    /\ data'.car_telemetry = data.car_telemetry]_vars

\* C26 happens: a Telemetry packet 50 ms after a notified LapData packet
\* changed the telemetry group without a notification
C26_Witness ==
    /\ pkt # None
    /\ AcceptedOf(pkt[1], PACKET_ID_CAR_TELEMETRY)
    /\ ~Notified(steps)
    /\ lastHfNote # None
    /\ lastHfNote[2] = PACKET_ID_LAP_DATA
    /\ clock - lastHfNote[1] = 50
    /\ _last_update = lastHfNote[1]
    /\ data.car_telemetry # EmptyDict
    /\ data.car_telemetry.speed = 120
    /\ data.lap_data # EmptyDict

-----------------------------------------------------------------------------
\* The keys of the participant registry

\* Participants datagrams with count bytes 0, 1, 22, 23 and 255 and names in
\* the first and the last entries that fit, and datagrams of another length:
\* one entry longer (count 23, a name in entry 22) and one entry long
RegistryInputs ==
    {Sized(PACKET_ID_PARTICIPANTS, 0,
           ParticipantsBody(n, (0 :> <<65>>) @@ (21 :> <<90>>))) :
        n \in {0, 1, 22, 23, 255}}
    \cup {Sized(PACKET_ID_PARTICIPANTS, 0, ParticipantsBody(255, (20 :> <<66>>))),
          Datagram(PACKET_HEADER_SIZE + 1 + 23 * 57, PACKET_ID_PARTICIPANTS, 0,
                   ParticipantsBody(23, (22 :> <<67>>))),
          Datagram(PACKET_HEADER_SIZE + 1 + 57, PACKET_ID_PARTICIPANTS, 0,
                   ParticipantsBody(2, (0 :> <<68>>))),
          \* a header without payload, and a second name for car 0
          Datagram(PACKET_HEADER_SIZE, PACKET_ID_PARTICIPANTS, 0, NoBody),
          Sized(PACKET_ID_PARTICIPANTS, 0, ParticipantsBody(1, (0 :> <<69>>)))}

NextRegistry == \E d \in RegistryInputs, dt \in {0, 150} : process_packet(d, dt, TRUE)

SpecRegistry == InitDefault /\ [][NextRegistry]_vars

\* C27: the keys of the participant registry are car indices in 0..21,
\* whatever count byte the processed Participants packets carried, and no
\* Participants packet raises for an index outside its payload.
C27_RegistryKeysInRange ==
    /\ DOMAIN data.participants \subseteq 0..21
    /\ (pkt # None /\ HeaderPacketId(pkt[1]) = PACKET_ID_PARTICIPANTS) => ~raised

\* C27 happens: a packet with count byte 255 filled the registry up to car 21
C27_Witness ==
    /\ pkt # None
    /\ AcceptedOf(pkt[1], PACKET_ID_PARTICIPANTS)
    /\ ByteAt(Payload(pkt[1]), 0) = 255
    /\ DOMAIN data.participants = 0..21
    /\ data.participants[21] = <<90>>
    /\ data.participants[0] = <<65>>

====
